---- MODULE Spec2Model ----
(***************************************************************************)
(* Record / replay subsystem of the gesture-controlled-robot repository:   *)
(* the Tk application HandMotionApp (gui.py), the standalone tracker       *)
(* (hand_tracker.py) and the standalone player (hand_animation_player.py). *)
(* The three programs share the recordings directory; one of them runs in  *)
(* a behaviour, chosen in Init.  The sphere, the renderer and the serial   *)
(* bridge (main.py, arduino_sender.py) have specifications of their own.   *)
(***************************************************************************)
EXTENDS Integers, Sequences, FiniteSets, TLC

VARIABLES program,   \* which executable runs: "gui", "tracker" or "player"
          files,     \* RECORDINGS_DIR: file name -> [doc, mtime]
          now,       \* wall clock, in ticks
          app,       \* the HandMotionApp instance (gui.py)
          tracker,   \* module globals and loop locals of hand_tracker.py
          player,    \* locals of replay_animation (hand_animation_player.py)
          op,        \* the handler that ran last
          history,   \* what the camera delivered to the recording in progress,
                     \* and what was delivered to the recording saved last, while
                     \* its file exists
          sphere,    \* an InteractiveSphere instance (interactive_sphere.py)
          result,    \* the arguments and the return value of the last call of
                     \* a function that is checked on its own
          robot      \* the supervisor main.py, its two subprocesses and the loop
                     \* of arduino_sender.py

vars == <<program, files, now, app, tracker, player, op, history, sphere, result, robot>>

---------------------------------------------------------------------------
\* Bounds of the exploration

MaxFrames == 2        \* longest recording buffer explored
MaxClock == 1         \* last clock tick explored
MaxPending == 2       \* most root.after callbacks pending at once
MaxRecordings == 2    \* most recordings started in one run
TicksPerSecond == 1   \* clock ticks per second of the %H%M%S timestamp
MaxLandmarks == 2     \* landmarks of a tracked hand explored (MediaPipe delivers 21)
Grid == 4             \* a normalized coordinate is a multiple of 1 / Grid

---------------------------------------------------------------------------
\* Python values

None == {}
Some(v) == {v}
Val(o) == CHOOSE v \in o : TRUE

\* str.strip() on a string modelled as a sequence of characters
RECURSIVE lstrip(_)
lstrip(s) == IF s # <<>> /\ Head(s) = " " THEN lstrip(Tail(s)) ELSE s

RECURSIVE rstrip(_)
rstrip(s) == IF s # <<>> /\ s[Len(s)] = " " THEN rstrip(SubSeq(s, 1, Len(s) - 1)) ELSE s

strip(s) == rstrip(lstrip(s))

\* A dict is an insertion-ordered list of <<key, value>> with distinct keys.
Has(d, k) == \E i \in 1..Len(d) : d[i][1] = k
Lookup(d, k) == d[CHOOSE i \in 1..Len(d) : d[i][1] = k][2]
Get(d, k, default) == IF Has(d, k) THEN Lookup(d, k) ELSE default

\* datetime.now().strftime("%Y%m%d_%H%M%S"): the clock truncated to seconds
strftime(t) == t \div TicksPerSecond

\* os.path.join(RECORDINGS_DIR, f"{action_name}_{timestamp}.json")
FileName(action_name, timestamp) == <<action_name, timestamp>>

---------------------------------------------------------------------------
\* The tracking source: one frame per tick, empty when no hand is detected

Landmark(k, i) == [x |-> k, y |-> k + i, z |-> i % 3, visibility |-> 0]
HandFrame(k) == [i \in 1..MaxLandmarks |-> Landmark(k, i)]
\* The hand keeps moving while it is recorded: the frame that would become the
\* n-th of a recording shows pose n, or no hand at all.
TrackerOutputs(n) == {<<>>, HandFrame(n)}

---------------------------------------------------------------------------
\* The recording file format

\* A landmark dict is written as a JSON object, its members in insertion
\* order, a frame as an array of such objects, "frames" as an array of frames.
dump_landmark(lm) ==
    << <<"x", lm.x>>, <<"y", lm.y>>, <<"z", lm.z>>, <<"visibility", lm.visibility>> >>
dump_frames(frames) ==
    [i \in 1..Len(frames) |-> [j \in 1..Len(frames[i]) |-> dump_landmark(frames[i][j])]]
dump_member(m) == IF m[1] = "frames" THEN <<m[1], dump_frames(m[2])>> ELSE m

\* json.dump(recording_data, f): the members in insertion order, then the
\* closing brace; a write that fails part-way leaves a prefix and no brace.
json_dump(recording_data) ==
    [members |-> [i \in 1..Len(recording_data) |-> dump_member(recording_data[i])],
     closed |-> TRUE]
Truncated(doc, k) == [members |-> SubSeq(doc.members, 1, k), closed |-> FALSE]

\* json.load(f): raises on a truncated document; of two members with the
\* same key the later value wins.
LoadRaises(doc) == ~doc.closed
RECURSIVE Dedup(_)
Dedup(ms) ==
    IF ms = <<>> THEN <<>>
    ELSE LET init == Dedup(SubSeq(ms, 1, Len(ms) - 1))
             last == ms[Len(ms)]
         IN IF Has(init, last[1])
            THEN [i \in 1..Len(init) |-> IF init[i][1] = last[1] THEN last ELSE init[i]]
            ELSE Append(init, last)
\* a JSON object read back as a dict, an array as a list
load_landmark(o) == [k \in {o[i][1] : i \in 1..Len(o)} |-> Lookup(Dedup(o), k)]
load_frames(a) ==
    [i \in 1..Len(a) |-> [j \in 1..Len(a[i]) |-> load_landmark(a[i][j])]]
load_member(m) == IF m[1] = "frames" THEN <<m[1], load_frames(m[2])>> ELSE m
json_load(doc) ==
    LET ms == Dedup(doc.members) IN [i \in 1..Len(ms) |-> load_member(ms[i])]

\* open(filename, 'w') + json.dump: outcome "ok", "open_fails" (IOError
\* before the file is touched) or "dump_fails" (IOError after k members).
WriteOutcomes == {"ok", "open_fails", "dump_fails"}
DumpCuts == {1}
WriteFile(fs, filename, doc, outcome, k, t) ==
    IF outcome = "open_fails" THEN fs
    ELSE LET written == IF outcome = "ok" THEN doc ELSE Truncated(doc, k)
         IN [n \in DOMAIN fs \cup {filename} |->
               IF n = filename THEN [doc |-> written, mtime |-> t] ELSE fs[n]]

---------------------------------------------------------------------------
\* HandMotionApp (gui.py).  A method is an operator from the state before the
\* call to the state after it; s is the instance together with the recordings
\* directory (s.files), e the answers of the environment during the call.

Env == [cam_ok : BOOLEAN,            \* cv2.VideoCapture(0).isOpened()
        ret : BOOLEAN,               \* video_capture.read() delivered a frame
        frame : UNION {TrackerOutputs(n) : n \in 1..MaxFrames + 1},  \* landmarks found in it
        now : 0..MaxClock,           \* the clock during the call
        write : WriteOutcomes,       \* outcome of open(filename, 'w') + json.dump
        k : DumpCuts,                \* members written before a failing dump
        read_ok : BOOLEAN,           \* open(filepath, 'r') succeeded
        yes : BOOLEAN,               \* answer to messagebox.askyesno
        remove_ok : BOOLEAN]         \* os.remove succeeded

estimated_fps_recording == <<30, 1>>      \* 30.0, as numerator and denominator
DefaultReplayFps == <<30, 1>>             \* .get("fps", 30)
my_action == <<"m">>                      \* initial text of the action name entry

\* files.sort(key=getmtime, reverse=True) over os.listdir
Listings(fs) ==
    {l \in [1..Cardinality(DOMAIN fs) -> DOMAIN fs] :
        /\ \A i, j \in DOMAIN l : i # j => l[i] # l[j]
        /\ \A i, j \in DOMAIN l : i < j => fs[l[i]].mtime >= fs[l[j]].mtime}

populate_recordings_list(s) ==
    [s EXCEPT !.recordings_listbox = CHOOSE l \in Listings(s.files) : TRUE,
              !.curselection = None]

display_cv2_image(s, title_text) == [s EXCEPT !.video_panel = title_text]

\* truth value of self.loaded_replay_data: None and {} are false
Truthy(o) == o # None /\ Val(o) # <<>>

\* the recording branch without the test of the frame
record_frame_any(s, frame) ==
    IF s.is_recording
    THEN [s EXCEPT !.recorded_frames_data = Append(@, frame)]
    ELSE s

\* if self.is_recording: if current_frame_landmarks_normalized: append
record_frame(s, frame) ==
    IF s.is_recording /\ frame # <<>>
    THEN [s EXCEPT !.recorded_frames_data = Append(@, frame)]
    ELSE s

RECURSIVE update_video_feed(_, _)

init_camera(s, e) ==
    IF s.camera_active THEN s
    ELSE IF ~e.cam_ok
         THEN [s EXCEPT !.video_capture = "closed",
                        !.messagebox = "Camera Error",
                        !.status_var = "Error: Camera not found."]
         ELSE update_video_feed(
                  [s EXCEPT !.video_capture = "opened",
                            !.camera_active = TRUE,
                            !.status_var = "Camera activated. Ready."], e)

\* stop_replay that leaves replay_paused as it is
stop_replay_keeps_pause(s, e) ==
    init_camera([s EXCEPT !.replay_active = FALSE,
                          !.loaded_replay_data = None,
                          !.current_replay_frame_idx = 0,
                          !.replayed = <<>>,
                          !.status_var = "Replay stopped. Camera reactivated.",
                          !.record_button = "normal",
                          !.play_button = "normal",
                          !.delete_button = "normal",
                          !.pause_resume_button = "disabled",
                          !.stop_replay_button = "disabled"], e)

stop_replay(s, e) ==
    init_camera([s EXCEPT !.replay_active = FALSE,
                          !.replay_paused = FALSE,
                          !.loaded_replay_data = None,
                          !.current_replay_frame_idx = 0,
                          !.replayed = <<>>,
                          !.status_var = "Replay stopped. Camera reactivated.",
                          !.record_button = "normal",
                          !.play_button = "normal",
                          !.delete_button = "normal",
                          !.pause_resume_button = "disabled",
                          !.stop_replay_button = "disabled"], e)

\* the drawing branch with the cursor moved by two
draw_replay_frame_skipping(s, frames) ==
    LET normalized_landmarks == frames[s.current_replay_frame_idx + 1]
        shown == display_cv2_image(s, "Replaying")
    IN [shown EXCEPT !.replayed = Append(@, normalized_landmarks),
                     !.current_replay_frame_idx = @ + 2]

\* the branch of update_replay_frame that draws frames[current_replay_frame_idx]
draw_replay_frame(s, frames) ==
    LET normalized_landmarks == frames[s.current_replay_frame_idx + 1]
        shown == display_cv2_image(s, "Replaying")
    IN [shown EXCEPT !.replayed = Append(@, normalized_landmarks),
                     !.current_replay_frame_idx = @ + 1]

update_replay_frame(s, e) ==
    IF ~s.replay_active \/ ~Truthy(s.loaded_replay_data) \/ s.replay_paused THEN s
    ELSE LET data == Val(s.loaded_replay_data) IN
         IF ~Has(data, "frames") THEN [s EXCEPT !.raised = "KeyError"]
         ELSE LET frames == Lookup(data, "frames") IN
              IF s.current_replay_frame_idx < Len(frames)
              THEN draw_replay_frame(s, frames)
              ELSE stop_replay(s, e)

\* update_video_feed that moves the cursor of a paused replay too
update_video_feed_through_pause(s, e) ==
    IF s.replay_active
    THEN LET s1 == IF s.replay_paused
                      /\ s.current_replay_frame_idx
                             < Len(Lookup(Val(s.loaded_replay_data), "frames"))
                   THEN draw_replay_frame(s, Lookup(Val(s.loaded_replay_data), "frames"))
                   ELSE update_replay_frame(s, e)
         IN
         IF s1.raised # "" THEN s1
         ELSE IF s1.loaded_replay_data = None
              THEN [s1 EXCEPT !.raised = "AttributeError"]
              ELSE IF Get(Val(s1.loaded_replay_data), "fps", DefaultReplayFps)[1] = 0
                   THEN [s1 EXCEPT !.raised = "ZeroDivisionError"]
                   ELSE [s1 EXCEPT !.after_callbacks = @ + 1]
    ELSE IF ~s.camera_active \/ s.video_capture # "opened"
         THEN display_cv2_image(s, "Camera off or replay active")
         ELSE LET read == [s EXCEPT !.current_frame_landmarks_normalized = Some(e.frame)]
                  s1 == IF ~e.ret THEN s
                        ELSE display_cv2_image(record_frame(read, e.frame), "Live Skeletal Hand")
              IN [s1 EXCEPT !.after_callbacks = @ + 1]

update_video_feed(s, e) ==
    IF s.replay_active /\ ~s.replay_paused
    THEN LET s1 == update_replay_frame(s, e) IN
         IF s1.raised # "" THEN s1
         ELSE IF s1.loaded_replay_data = None
              THEN [s1 EXCEPT !.raised = "AttributeError"]
              ELSE IF Get(Val(s1.loaded_replay_data), "fps", DefaultReplayFps)[1] = 0
                   THEN [s1 EXCEPT !.raised = "ZeroDivisionError"]
                   ELSE [s1 EXCEPT !.after_callbacks = @ + 1]
    ELSE IF ~s.camera_active \/ s.video_capture # "opened"
         THEN display_cv2_image(s, "Camera off or replay active")
         ELSE LET read == [s EXCEPT !.current_frame_landmarks_normalized = Some(e.frame)]
                  s1 == IF ~e.ret THEN s
                        ELSE display_cv2_image(record_frame(read, e.frame), "Live Skeletal Hand")
              IN [s1 EXCEPT !.after_callbacks = @ + 1]

\* the dict literal with the last frame left out of "frames"
RecordingData_short(action_name, fps, frames) ==
    << <<"actionName", action_name>>,
       <<"fps", fps>>,
       <<"frameCount", Len(frames)>>,
       <<"frames", SubSeq(frames, 1, Len(frames) - 1)>> >>

\* the recording_data dict literal of save_current_recording / save_recording
RecordingData(action_name, fps, frames) ==
    << <<"actionName", action_name>>,
       <<"fps", fps>>,
       <<"frameCount", Len(frames)>>,
       <<"frames", frames>> >>

\* the save that empties the buffer only when the file was written
write_current_recording_keeping_unsaved(s, e) ==
    LET action_name == strip(s.current_action_name_var)
        timestamp == strftime(e.now)
        filename == FileName(action_name, timestamp)
        recording_data == RecordingData(action_name, estimated_fps_recording,
                                        s.recorded_frames_data)
        written == [s EXCEPT !.files = WriteFile(@, filename, json_dump(recording_data),
                                                 e.write, e.k, e.now)]
    IN IF e.write = "ok"
       THEN populate_recordings_list([written EXCEPT !.status_var = "Recording saved",
                                                     !.recorded_frames_data = <<>>])
       ELSE [written EXCEPT !.messagebox = "Save Error",
                            !.status_var = "Error saving recording."]

\* save_current_recording once the buffer is known to hold frames
write_current_recording(s, e) ==
    LET action_name == strip(s.current_action_name_var)
        timestamp == strftime(e.now)
        filename == FileName(action_name, timestamp)
        recording_data == RecordingData(action_name, estimated_fps_recording,
                                        s.recorded_frames_data)
        written == [s EXCEPT !.files = WriteFile(@, filename, json_dump(recording_data),
                                                 e.write, e.k, e.now)]
        s1 == IF e.write = "ok"
              THEN populate_recordings_list([written EXCEPT !.status_var = "Recording saved"])
              ELSE [written EXCEPT !.messagebox = "Save Error",
                                   !.status_var = "Error saving recording."]
    IN [s1 EXCEPT !.recorded_frames_data = <<>>]

\* save_current_recording without the test of the buffer
save_current_recording_unchecked(s, e) == write_current_recording(s, e)

save_current_recording(s, e) ==
    IF s.recorded_frames_data = <<>>
    THEN [s EXCEPT !.status_var = "No frames recorded to save."]
    ELSE write_current_recording(s, e)

\* toggle_recording past the replay_active guard
switch_recording(s, e) ==
    LET s1 == IF ~s.camera_active THEN init_camera(s, e) ELSE s IN
    IF ~s1.camera_active THEN s1
    ELSE IF s1.is_recording
         THEN LET s2 == save_current_recording(
                            [s1 EXCEPT !.is_recording = FALSE,
                                       !.status_var = "Recording stopped."], e)
              IN [s2 EXCEPT !.action_name_entry = "normal"]
         ELSE LET action_name == strip(s1.current_action_name_var) IN
              IF action_name = <<>>
              THEN [s1 EXCEPT !.messagebox = "Input Error"]
              ELSE [s1 EXCEPT !.is_recording = TRUE,
                              !.started = @ + 1,
                              !.recorded_frames_data = <<>>,
                              !.status_var = "Recording action",
                              !.action_name_entry = "disabled"]

\* toggle_recording that warns about the replay and carries on
toggle_recording_carries_on(s, e) ==
    IF s.replay_active
    THEN switch_recording([s EXCEPT !.messagebox = "Recording Blocked"], e)
    ELSE switch_recording(s, e)

toggle_recording(s, e) ==
    IF s.replay_active THEN [s EXCEPT !.messagebox = "Recording Blocked"]
    ELSE switch_recording(s, e)

\* the start of a replay that leaves the camera open
start_replay_keeps_camera(s, data) ==
    LET s1 == [s EXCEPT !.loaded_replay_data = Some(data)] IN
    IF data = <<>> \/ ~Has(data, "frames") \/ Lookup(data, "frames") = <<>>
    THEN [s1 EXCEPT !.messagebox = "Playback Error"]
    ELSE [s1 EXCEPT !.replay_active = TRUE,
                    !.replay_paused = FALSE,
                    !.current_replay_frame_idx = 0,
                    !.replayed = <<>>,
                    !.status_var = "Playing",
                    !.record_button = "disabled",
                    !.play_button = "disabled",
                    !.delete_button = "disabled",
                    !.pause_resume_button = "normal",
                    !.stop_replay_button = "normal"]

\* play_selected_recording after json.load returned data
start_replay(s, data) ==
    LET s1 == [s EXCEPT !.loaded_replay_data = Some(data)] IN
    IF data = <<>> \/ ~Has(data, "frames") \/ Lookup(data, "frames") = <<>>
    THEN [s1 EXCEPT !.messagebox = "Playback Error"]
    ELSE LET s2 == [s1 EXCEPT !.replay_active = TRUE,
                              !.replay_paused = FALSE,
                              !.current_replay_frame_idx = 0,
                              !.replayed = <<>>,
                              !.status_var = "Playing",
                              !.record_button = "disabled",
                              !.play_button = "disabled",
                              !.delete_button = "disabled",
                              !.pause_resume_button = "normal",
                              !.stop_replay_button = "normal"]
         IN IF s2.camera_active /\ s2.video_capture # "None"
            THEN [s2 EXCEPT !.video_capture = "closed", !.camera_active = FALSE]
            ELSE s2

\* the except branch without self.loaded_replay_data = None
load_failed_keeps_data(s) == [s EXCEPT !.messagebox = "Load Error"]

\* the except branch of play_selected_recording
load_failed(s) == [s EXCEPT !.messagebox = "Load Error", !.loaded_replay_data = None]

\* the load with the file opened for writing: it is left empty
load_and_play_rewriting(s, e) ==
    LET filename == s.recordings_listbox[Val(s.curselection)] IN
    IF ~e.read_ok \/ filename \notin DOMAIN s.files \/ LoadRaises(s.files[filename].doc)
    THEN load_failed(s)
    ELSE start_replay([s EXCEPT !.files[filename].doc = Truncated(@, 0)],
                      json_load(s.files[filename].doc))

\* play_selected_recording from filename = self.recordings_listbox.get(...) on
load_and_play(s, e) ==
    LET filename == s.recordings_listbox[Val(s.curselection)] IN
    IF ~e.read_ok \/ filename \notin DOMAIN s.files \/ LoadRaises(s.files[filename].doc)
    THEN load_failed(s)
    ELSE start_replay(s, json_load(s.files[filename].doc))

\* play_selected_recording that does not look at is_recording
play_selected_recording_unguarded(s, e) ==
    IF s.curselection = None THEN [s EXCEPT !.messagebox = "Selection"]
    ELSE load_and_play(s, e)

play_selected_recording(s, e) ==
    IF s.curselection = None THEN [s EXCEPT !.messagebox = "Selection"]
    ELSE IF s.is_recording THEN [s EXCEPT !.messagebox = "Playback Blocked"]
    ELSE load_and_play(s, e)

toggle_pause_replay(s) ==
    IF ~s.replay_active THEN s
    ELSE LET s1 == [s EXCEPT !.replay_paused = ~@] IN
         IF s1.loaded_replay_data = None THEN [s1 EXCEPT !.raised = "AttributeError"]
         ELSE [s1 EXCEPT !.status_var = IF s1.replay_paused THEN "Paused" ELSE "Resumed"]

delete_selected_recording(s, e) ==
    IF s.curselection = None THEN [s EXCEPT !.messagebox = "Selection"]
    ELSE LET filename == s.recordings_listbox[Val(s.curselection)] IN
         IF ~e.yes THEN [s EXCEPT !.messagebox = "Confirm Delete"]
         ELSE IF ~e.remove_ok \/ filename \notin DOMAIN s.files
              THEN [s EXCEPT !.messagebox = "Delete Error", !.status_var = "Error deleting"]
              ELSE populate_recordings_list(
                       [s EXCEPT !.files = [n \in DOMAIN @ \ {filename} |-> @[n]],
                                 !.messagebox = "Confirm Delete",
                                 !.status_var = "Deleted"])

on_closing(s, e) ==
    LET s1 == IF s.is_recording
              THEN IF e.yes
                   THEN save_current_recording([s EXCEPT !.messagebox = "Recording in Progress"], e)
                   ELSE [s EXCEPT !.messagebox = "Recording in Progress", !.is_recording = FALSE]
              ELSE s
    IN [s1 EXCEPT !.video_capture = IF @ = "None" THEN @ ELSE "closed",
                  !.camera_active = FALSE,
                  !.replay_active = FALSE,
                  !.destroyed = TRUE]

\* __init__ up to the call of init_camera
NewApp == [is_recording |-> FALSE,
           recorded_frames_data |-> <<>>,
           current_action_name_var |-> my_action,
           video_capture |-> "None",
           camera_active |-> FALSE,
           replay_active |-> FALSE,
           replay_paused |-> FALSE,
           current_replay_frame_idx |-> 0,
           loaded_replay_data |-> None,
           recordings_listbox |-> <<>>,
           curselection |-> None,
           action_name_entry |-> "normal",
           record_button |-> "normal",
           play_button |-> "normal",
           pause_resume_button |-> "disabled",
           stop_replay_button |-> "disabled",
           delete_button |-> "normal",
           status_var |-> "",         \* status line written by the last handler
           video_panel |-> "",        \* title of the image shown by the last handler
           after_callbacks |-> 0,     \* update_video_feed callbacks pending in root.after
           destroyed |-> FALSE,       \* root.destroy() was called
           messagebox |-> "",         \* dialog shown by the last handler
           raised |-> "",             \* exception that ended the last handler
           current_frame_landmarks_normalized |-> None,  \* landmarks read by the last handler
           replayed |-> <<>>,         \* frames drawn so far by the replay in progress
           started |-> 0]             \* recordings started so far

AppFields == DOMAIN NewApp

__init__(fs, e) == init_camera(populate_recordings_list(NewApp @@ [files |-> fs]), e)

---------------------------------------------------------------------------
\* The standalone tracker (hand_tracker.py).  g holds the module globals and
\* the locals of main_tracker, together with the recordings directory.

default_action == <<"d">>       \* current_action_name = "default_action"
recorded_action == <<"r">>      \* the name used when the prompt is left empty
DefaultSaveFps == <<30, 1>>     \* save_recording(fps=30.0), and the 30.0 of line 228

Keys == {"q", "r", "none"}      \* cv2.waitKey(5) & 0xFF
ActionInputs == {<<" ">>, <<" ", "m">>}

NewTracker == [is_recording |-> FALSE,
               recorded_frames |-> <<>>,
               current_action_name |-> default_action,
               start_time_recording |-> None,
               frame_count_recording |-> 0,
               pc |-> "loop",           \* "loop" inside while cap.isOpened(), else "exit"
               current_frame_landmarks_normalized |-> None,  \* landmarks of the last pass
               stdout |-> "",           \* the line printed last
               started |-> 0]           \* recordings started so far

TrackerFields == DOMAIN NewTracker

save_recording(g, fps, e) ==
    IF g.recorded_frames = <<>>
    THEN [g EXCEPT !.stdout = "No frames recorded to save."]
    ELSE LET timestamp == strftime(e.now)
             filename == FileName(g.current_action_name, timestamp)
             recording_data == RecordingData(g.current_action_name, fps, g.recorded_frames)
             written == [g EXCEPT !.files = WriteFile(@, filename, json_dump(recording_data),
                                                      e.write, e.k, e.now)]
         IN [written EXCEPT !.stdout = IF e.write = "ok" THEN "Recording saved"
                                       ELSE "Error saving recording",
                            !.recorded_frames = <<>>]

\* frame_count_recording / duration, whatever the duration
fps_estimate_of_any_duration(frame_count_recording, duration) ==
    <<frame_count_recording, duration>>

\* frame_count_recording / duration if duration > 0 else 30.0
fps_estimate(frame_count_recording, duration) ==
    IF duration > 0 THEN <<frame_count_recording, duration>> ELSE DefaultSaveFps

\* one pass of the body of while cap.isOpened()
main_tracker(g, e, key, action_input) ==
    IF ~e.ret THEN [g EXCEPT !.pc = "exit", !.stdout = "Can't receive frame"]
    ELSE LET read == [g EXCEPT !.current_frame_landmarks_normalized = Some(e.frame)]
             g1 == IF read.is_recording /\ e.frame # <<>>
                   THEN [read EXCEPT !.recorded_frames = Append(@, e.frame),
                                     !.frame_count_recording = @ + 1]
                   ELSE read
         IN IF key = "q"
            THEN LET g2 == IF g1.is_recording
                           THEN save_recording([g1 EXCEPT !.stdout = "Recording stopped due to quit"],
                                               DefaultSaveFps, e)
                           ELSE g1
                 IN [g2 EXCEPT !.pc = "exit"]
            ELSE IF key = "r"
            THEN IF ~g1.is_recording
                 THEN [g1 EXCEPT !.is_recording = TRUE,
                                 !.started = @ + 1,
                                 !.recorded_frames = <<>>,
                                 !.frame_count_recording = 0,
                                 !.start_time_recording = Some(e.now),
                                 !.current_action_name =
                                     IF strip(action_input) # <<>> THEN strip(action_input)
                                     ELSE recorded_action,
                                 !.stdout = "Started recording"]
                 ELSE LET duration == e.now - Val(g1.start_time_recording)
                      IN save_recording([g1 EXCEPT !.is_recording = FALSE,
                                                   !.stdout = "Stopped recording"],
                                        fps_estimate(g1.frame_count_recording, duration), e)
            ELSE g1

---------------------------------------------------------------------------
\* The standalone player (hand_animation_player.py), function replay_animation.
\* (The module body reads mp.solutions without importing mediapipe; the
\* function is modelled as it runs once that name resolves.)

PlayerDefaultFps == <<30, 1>>     \* recording_data.get("fps", 30.0)

NewPlayer == [pc |-> "menu",              \* "menu", "replaying" or "exit"
              recording_data |-> None,
              frames_data |-> <<>>,
              fps |-> PlayerDefaultFps,
              action_name |-> <<>>,
              frame_idx |-> 0,
              replayed |-> <<>>,          \* frames drawn so far
              stdout |-> ""]

\* replay_animation up to the for loop
replay_animation(p, fs, filepath, e) ==
    IF ~e.read_ok \/ filepath \notin DOMAIN fs
    THEN [p EXCEPT !.pc = "exit", !.stdout = "Error: Recording file not found"]
    ELSE IF LoadRaises(fs[filepath].doc)
    THEN [p EXCEPT !.pc = "exit", !.stdout = "Error: Could not decode JSON"]
    ELSE LET recording_data == json_load(fs[filepath].doc)
             frames_data == Get(recording_data, "frames", <<>>)
             fps == Get(recording_data, "fps", PlayerDefaultFps)
             action_name == Get(recording_data, "actionName", <<"U">>)
         IN IF frames_data = <<>>
            THEN [p EXCEPT !.pc = "exit", !.stdout = "No frames found in the recording."]
            ELSE IF fps[1] = 0
            THEN [p EXCEPT !.pc = "exit", !.stdout = "ZeroDivisionError"]
            ELSE [p EXCEPT !.pc = "replaying",
                           !.recording_data = Some(recording_data),
                           !.frames_data = frames_data,
                           !.fps = fps,
                           !.action_name = action_name,
                           !.frame_idx = 0,
                           !.replayed = <<>>,
                           !.stdout = "Replaying action"]

\* one pass of for frame_idx, landmarks_normalized in enumerate(frames_data)
replay_animation_frame(p, key) ==
    LET landmarks_normalized == p.frames_data[p.frame_idx + 1]
        p1 == [p EXCEPT !.replayed = Append(@, landmarks_normalized)]
    IN IF key = "q" THEN [p1 EXCEPT !.pc = "exit"]
       ELSE IF p.frame_idx + 1 = Len(p.frames_data)
            THEN [p1 EXCEPT !.frame_idx = @ + 1, !.pc = "exit"]
            ELSE [p1 EXCEPT !.frame_idx = @ + 1]

---------------------------------------------------------------------------
\* InteractiveSphere (interactive_sphere.py).  A normalized coordinate k stands
\* for the float k / Grid; a pixel coordinate and a radius are integers.

\* int(n / d) for d > 0: the quotient truncated towards zero
int(n, d) == IF n >= 0 THEN n \div d ELSE -((-n) \div d)

\* int(coordinate * image_size)
Pixel(k, image_size) == int(k * image_size, Grid)

\* InteractiveSphere.__init__
InteractiveSphere(initial_pos_normalized, radius_pixels, color_default, color_collided, interaction_landmark_idx) ==
    [pos_normalized |-> initial_pos_normalized,
     radius_pixels |-> radius_pixels,
     color_default |-> color_default,
     color_collided |-> color_collided,
     interaction_landmark_idx |-> interaction_landmark_idx,
     is_currently_collided |-> FALSE]

\* dist_sq of update_state
dist_sq(self, landmark_for_interaction, image_width, image_height) ==
    LET sphere_pixel_x == Pixel(self.pos_normalized[1], image_width)
        sphere_pixel_y == Pixel(self.pos_normalized[2], image_height)
        lm_pixel_x == Pixel(landmark_for_interaction.x, image_width)
        lm_pixel_y == Pixel(landmark_for_interaction.y, image_height)
    IN (sphere_pixel_x - lm_pixel_x) * (sphere_pixel_x - lm_pixel_x)
       + (sphere_pixel_y - lm_pixel_y) * (sphere_pixel_y - lm_pixel_y)

\* (self.radius_pixels * 1.2)**2 as numerator and denominator; the double
\* nearest to it lies on the same side of every integer, and equals it when
\* it is an integer
collision_threshold_sq(radius_pixels) ==
    <<(12 * radius_pixels) * (12 * radius_pixels), 100>>

\* the comparison with <= in the place of <
below_threshold_or_on_it(d, radius_pixels) ==
    d * collision_threshold_sq(radius_pixels)[2] <= collision_threshold_sq(radius_pixels)[1]

\* dist_sq < collision_threshold_sq
below_threshold(d, radius_pixels) ==
    d * collision_threshold_sq(radius_pixels)[2] < collision_threshold_sq(radius_pixels)[1]

\* update_state without the reset of is_currently_collided at its start
update_state_keeps_flag(self, hand_landmarks_normalized, image_width, image_height) ==
    IF hand_landmarks_normalized # <<>>
       /\ Len(hand_landmarks_normalized) > self.interaction_landmark_idx
    THEN LET landmark_for_interaction ==
                 hand_landmarks_normalized[self.interaction_landmark_idx + 1]
         IN IF below_threshold(dist_sq(self, landmark_for_interaction,
                                       image_width, image_height),
                               self.radius_pixels)
            THEN [self |-> [self EXCEPT !.is_currently_collided = TRUE,
                                        !.pos_normalized = <<landmark_for_interaction.x,
                                                             landmark_for_interaction.y>>],
                  interaction_occurred |-> TRUE]
            ELSE [self |-> self, interaction_occurred |-> FALSE]
    ELSE [self |-> self, interaction_occurred |-> FALSE]

\* update_state: the instance after the call and the value returned
update_state(self, hand_landmarks_normalized, image_width, image_height) ==
    LET reset == [self EXCEPT !.is_currently_collided = FALSE] IN
    IF hand_landmarks_normalized # <<>>
       /\ Len(hand_landmarks_normalized) > reset.interaction_landmark_idx
    THEN LET landmark_for_interaction ==
                 hand_landmarks_normalized[reset.interaction_landmark_idx + 1]
         IN IF below_threshold(dist_sq(reset, landmark_for_interaction,
                                       image_width, image_height),
                               reset.radius_pixels)
            THEN [self |-> [reset EXCEPT !.is_currently_collided = TRUE,
                                         !.pos_normalized = <<landmark_for_interaction.x,
                                                              landmark_for_interaction.y>>],
                  interaction_occurred |-> TRUE]
            ELSE [self |-> reset, interaction_occurred |-> FALSE]
    ELSE [self |-> reset, interaction_occurred |-> FALSE]

---------------------------------------------------------------------------
\* The skeleton renderer: draw_enhanced_landmarks_gui (gui.py),
\* draw_enhanced_landmarks_replay (hand_animation_player.py) and
\* draw_enhanced_landmarks (hand_tracker.py) are the same algorithm.  A depth z
\* is an integer number of depth units; a depth scale is the fraction
\* <<numerator, denominator>>, computed exactly.

\* colours, (B, G, R)
COLOR_WRIST == <<0, 255, 255>>
COLOR_THUMB_TIP == <<0, 255, 0>>
COLOR_FINGERTIPS == <<255, 0, 0>>
COLOR_JOINTS == <<192, 192, 192>>
COLOR_BONES == <<220, 220, 220>>
PALM_COLOR == <<80, 80, 80>>
COLOR_OUTLINE == <<50, 50, 50>>

WRIST_IDX == 0
THUMB_TIP_IDX == 4
PINKY_TIP_IDX == 20
FINGERTIP_INDICES == {THUMB_TIP_IDX, 8, 12, 16, PINKY_TIP_IDX}
PALM_INDICES == <<0, 1, 5, 9, 13, 17>>

\* mp_hands.HAND_CONNECTIONS: palm, thumb, index, middle, ring and pinky edges
HAND_CONNECTIONS ==
    {<<0, 1>>, <<0, 5>>, <<9, 13>>, <<13, 17>>, <<5, 9>>, <<0, 17>>,
     <<1, 2>>, <<2, 3>>, <<3, 4>>,
     <<5, 6>>, <<6, 7>>, <<7, 8>>,
     <<9, 10>>, <<10, 11>>, <<11, 12>>,
     <<13, 14>>, <<14, 15>>, <<15, 16>>,
     <<17, 18>>, <<18, 19>>, <<19, 20>>}

\* an image nothing has been drawn on
Canvas == [drawContours |-> <<>>, line |-> {}, circle |-> <<>>]

min_z(normalized_landmarks_frame) ==
    LET zs == {normalized_landmarks_frame[i].z : i \in DOMAIN normalized_landmarks_frame}
    IN CHOOSE z \in zs : \A other \in zs : z <= other

max_z(normalized_landmarks_frame) ==
    LET zs == {normalized_landmarks_frame[i].z : i \in DOMAIN normalized_landmarks_frame}
    IN CHOOSE z \in zs : \A other \in zs : z >= other

z_range(normalized_landmarks_frame) ==
    IF max_z(normalized_landmarks_frame) > min_z(normalized_landmarks_frame)
    THEN max_z(normalized_landmarks_frame) - min_z(normalized_landmarks_frame)
    ELSE 1

\* (max_z - lm['z']) / z_range if z_range != 0 else 0.5
depth_scale(lm, normalized_landmarks_frame) ==
    IF z_range(normalized_landmarks_frame) # 0
    THEN <<max_z(normalized_landmarks_frame) - lm.z, z_range(normalized_landmarks_frame)>>
    ELSE <<1, 2>>

\* the list of (px, py, z, depth_scale)
pixel_landmarks(normalized_landmarks_frame, image_width, image_height) ==
    [i \in DOMAIN normalized_landmarks_frame |->
        LET lm == normalized_landmarks_frame[i] IN
        [px |-> Pixel(lm.x, image_width),
         py |-> Pixel(lm.y, image_height),
         z |-> lm.z,
         depth_scale |-> depth_scale(lm, normalized_landmarks_frame)]]

\* the palm indices the palm loop subscripts pixel_landmarks with
palm_indices(landmarks) ==
    SelectSeq(PALM_INDICES, LAMBDA idx : idx < Len(landmarks))

\* the connections the bone loop draws, without the test of end_idx
bones_to_any_end(landmarks) ==
    {connection \in HAND_CONNECTIONS : connection[1] < Len(landmarks)}

\* the connections the bone loop draws
bones(landmarks) ==
    {connection \in HAND_CONNECTIONS :
        connection[1] < Len(landmarks) /\ connection[2] < Len(landmarks)}

\* (p1[3] + p2[3]) / 2.0
avg_depth_scale(p1, p2) ==
    <<p1.depth_scale[1] * p2.depth_scale[2] + p2.depth_scale[1] * p1.depth_scale[2],
      2 * p1.depth_scale[2] * p2.depth_scale[2]>>

\* round(n / d) of Python for n >= 0, d > 0: to the nearest, a half to the even
round(n, d) ==
    LET floor == n \div d
        rest == n % d
    IN IF 2 * rest < d THEN floor
       ELSE IF 2 * rest > d THEN floor + 1
       ELSE IF floor % 2 = 0 THEN floor ELSE floor + 1

\* 1 + round(avg_depth_scale * 5)
thickness_rounded(p1, p2) ==
    1 + round(avg_depth_scale(p1, p2)[1] * 5, avg_depth_scale(p1, p2)[2])

\* 1 + int(avg_depth_scale * 5)
thickness(p1, p2) ==
    1 + int(avg_depth_scale(p1, p2)[1] * 5, avg_depth_scale(p1, p2)[2])

\* 3 + int(depth_scale * 7)
radius(p) == 3 + int(p.depth_scale[1] * 7, p.depth_scale[2])

color(idx) ==
    IF idx = WRIST_IDX THEN COLOR_WRIST
    ELSE IF idx = THUMB_TIP_IDX THEN COLOR_THUMB_TIP
    ELSE IF idx \in FINGERTIP_INDICES THEN COLOR_FINGERTIPS
    ELSE COLOR_JOINTS

\* The image after the call, the subscripts pixel_landmarks was read with
\* (from 0, as in the code) and the exception the call ended with.
draw_enhanced_landmarks_gui(image, normalized_landmarks_frame, image_width, image_height) ==
    IF normalized_landmarks_frame = <<>>
    THEN [image |-> image, pixel_landmarks |-> <<>>, subscripts |-> {}, raised |-> ""]
    ELSE
    LET landmarks == pixel_landmarks(normalized_landmarks_frame, image_width, image_height)
        palm == palm_indices(landmarks)
        palm_points_cv == [k \in DOMAIN palm |->
                              IF palm[k] < Len(landmarks)
                              THEN <<landmarks[palm[k] + 1].px, landmarks[palm[k] + 1].py>>
                              ELSE <<>>]
        connections == bones(landmarks)
        subscripts == {palm[k] : k \in DOMAIN palm}
                      \cup {connection[1] : connection \in connections}
                      \cup {connection[2] : connection \in connections}
        lines == {[start_idx |-> connection[1],
                   end_idx |-> connection[2],
                   pt1 |-> <<landmarks[connection[1] + 1].px, landmarks[connection[1] + 1].py>>,
                   pt2 |-> <<landmarks[connection[2] + 1].px, landmarks[connection[2] + 1].py>>,
                   color |-> COLOR_BONES,
                   thickness |-> thickness(landmarks[connection[1] + 1],
                                           landmarks[connection[2] + 1])] :
                  connection \in {c \in connections : c[2] < Len(landmarks)}}
        circles == [k \in 1..2 * Len(landmarks) |->
                      LET idx == (k - 1) \div 2
                          p == landmarks[idx + 1]
                      IN [idx |-> idx,
                          center |-> <<p.px, p.py>>,
                          radius |-> radius(p),
                          color |-> IF k % 2 = 1 THEN color(idx) ELSE COLOR_OUTLINE,
                          thickness |-> IF k % 2 = 1 THEN -1 ELSE 1]]
    IN IF \E idx \in subscripts : idx >= Len(landmarks)
       THEN [image |-> [image EXCEPT
                          !.drawContours = IF Len(palm_points_cv) > 2
                                           THEN Append(@, [points |-> palm_points_cv,
                                                           color |-> PALM_COLOR])
                                           ELSE @,
                          !.line = @ \cup lines],
             pixel_landmarks |-> landmarks,
             subscripts |-> subscripts,
             raised |-> "IndexError"]
       ELSE [image |-> [drawContours |-> IF Len(palm_points_cv) > 2
                                         THEN Append(image.drawContours,
                                                     [points |-> palm_points_cv,
                                                      color |-> PALM_COLOR])
                                         ELSE image.drawContours,
                        line |-> image.line \cup lines,
                        circle |-> image.circle \o circles],
             pixel_landmarks |-> landmarks,
             subscripts |-> subscripts,
             raised |-> ""]

\* the same drawing, on the image the player passes
draw_enhanced_landmarks_replay(image, normalized_landmarks_frame, image_width, image_height) ==
    draw_enhanced_landmarks_gui(image, normalized_landmarks_frame, image_width, image_height)

\* the same drawing, from the landmarks of the MediaPipe result
draw_enhanced_landmarks(image, hand_landmarks_proto, image_width, image_height) ==
    draw_enhanced_landmarks_gui(image, hand_landmarks_proto, image_width, image_height)

---------------------------------------------------------------------------
\* Recordings found in the directory at start: none, or one file made earlier

OldName == FileName(<<"o">>, 0)
OldFile(members, closed) == [doc |-> [members |-> members, closed |-> closed], mtime |-> 0]
OldFrames == <<HandFrame(2), HandFrame(1)>>

WellFormed ==
    OldFile(<< <<"actionName", <<"o">> >>, <<"fps", <<2, 1>> >>,
               <<"frameCount", 2>>, <<"frames", dump_frames(OldFrames)>> >>, TRUE)

Malformed ==
    { OldFile(<< <<"frameCount", 2>>, <<"frames", dump_frames(OldFrames)>> >>, TRUE),    \* no fps, no actionName
      OldFile(<< <<"actionName", <<"o">> >>, <<"fps", <<30, 1>> >>,
                 <<"frameCount", 0>>, <<"frames", <<>> >> >>, TRUE),        \* no frame
      OldFile(<< <<"actionName", <<"o">> >>, <<"fps", <<30, 1>> >> >>, TRUE),  \* no frames member
      OldFile(<< <<"actionName", <<"o">> >> >>, FALSE) }                    \* cut short

\* the malformed files that the application tells apart: cut short, or holding
\* a "frames" member
Foreign == {f \in Malformed : ~f.doc.closed \/ Has(f.doc.members, "frames")}

InitialDirs(p) ==
    IF p = "tracker" THEN {<<>>}
    ELSE {[n \in {OldName} |-> f] : f \in IF p = "gui" THEN Foreign 
                                                      ELSE Malformed \cup {WellFormed}}

---------------------------------------------------------------------------
\* State machine

ActionNames == {<<" ">>, my_action}

Quiet == [cam_ok |-> TRUE, ret |-> TRUE, frame |-> <<>>, now |-> now, write |-> "ok",
          k |-> 0, read_ok |-> TRUE, yes |-> TRUE, remove_ok |-> TRUE]

Project(r, fields) == [f \in fields |-> r[f]]

\* no function has been called on its own
NoCall == [function |-> "none"]

\* colours of the sphere, (B, G, R)
color_default == <<0, 0, 255>>
color_collided == <<0, 255, 0>>

\* the sphere of a run that does not use it
Parked == InteractiveSphere(<<0, 0>>, 5, color_default, color_collided, 0)

\* arduino_sender.py and main.py before their first statement
NewSender == [pc |-> "serial",     \* "serial", "sleep2", then in the loop:
                                   \* "try", "write", "sleep", "except"
              data |-> <<>>,       \* data of the last read
              written |-> <<>>,    \* the last line given to arduino.write
              stdout |-> "",       \* the line printed last
              tried |-> FALSE,     \* hand_data.txt has been opened at least once
              slept |-> FALSE]     \* time.sleep(0.05) ran since it was opened last

NotLaunched == [pc |-> "popen_tracker",   \* position of main.py: "popen_tracker",
                                          \* "sleep1", "popen_sender", "poll",
                                          \* "sleep_half", "end"
                left |-> "",              \* how main.py ended: "break", "interrupt",
                                          \* or "uncaught" (KeyboardInterrupt outside try)
                stdout |-> "",            \* the line main.py printed last
                hand_tracker |-> "absent",
                arduino_sender |-> "absent",
                sender |-> NewSender,
                hand_data |-> None]       \* contents of hand_data.txt, None: no file

Init ==
    /\ program \in {"gui", "tracker", "player"}
    /\ sphere = Parked
    /\ result = NoCall
    /\ robot = NotLaunched
    /\ files \in InitialDirs(program)
    /\ now = 0
    /\ op = "start"
    /\ history = [session |-> <<>>, saved |-> None]
    /\ \E cam_ok, ret \in BOOLEAN :
          LET e == [cam_ok |-> cam_ok, ret |-> ret, frame |-> <<>>, now |-> 0,
                    write |-> "ok", k |-> 0, read_ok |-> TRUE, yes |-> TRUE,
                    remove_ok |-> TRUE]
          IN /\ app = IF program = "gui"
                      THEN Project(__init__(files, e), AppFields)
                      ELSE NewApp
             /\ tracker = IF program = "tracker" /\ ~cam_ok
                          THEN [NewTracker EXCEPT !.pc = "exit", !.stdout = "Cannot open camera"]
                          ELSE NewTracker
             /\ player = IF program = "player" /\ DOMAIN files = {}
                         THEN [NewPlayer EXCEPT !.pc = "exit", !.stdout = "No recordings found"]
                         ELSE NewPlayer

\* the instance before a handler runs, with the directory it sees
Self == [app EXCEPT !.messagebox = "", !.raised = "", !.status_var = "", !.video_panel = "",
                    !.current_frame_landmarks_normalized = None] @@ [files |-> files]

\* History of what the tracking source delivered.  rec and rec2 tell whether a
\* recording was active before and after the step, cur is the frame the step
\* read, fs2 the directory it left.
Delivered(rec, cur) ==
    IF rec /\ cur # None /\ Val(cur) # <<>>
    THEN Append(history.session, Val(cur))
    ELSE history.session

Written(fs2) ==
    {n \in DOMAIN fs2 : fs2[n].doc.closed /\ (n \notin DOMAIN files \/ files[n] # fs2[n])}

Remember(rec, rec2, cur, fs2) ==
    history' = [session |-> IF rec = rec2 THEN Delivered(rec, cur) ELSE <<>>,
                saved |-> IF Written(fs2) # {}
                          THEN Some([name |-> CHOOSE n \in Written(fs2) : TRUE,
                                     frames |-> Delivered(rec, cur)])
                          ELSE IF history.saved # None
                                  /\ Val(history.saved).name \notin DOMAIN fs2
                               THEN None
                               ELSE history.saved]

\* a handler of HandMotionApp ran and left r
Handled(name, r) ==
    /\ r.after_callbacks <= MaxPending
    /\ r.started <= MaxRecordings
    /\ Len(r.recorded_frames_data) <= MaxFrames
    /\ app' = Project(r, AppFields)
    /\ files' = r.files
    /\ op' = name
    /\ Remember(app.is_recording, r.is_recording, r.current_frame_landmarks_normalized, r.files)
    /\ UNCHANGED <<program, now, tracker, player, sphere, result, robot>>

Running == program = "gui" /\ ~app.destroyed

\* answers of the environment that the state makes relevant
CamAnswers == IF app.camera_active THEN {TRUE} ELSE BOOLEAN
ReadAnswers == {TRUE}
WriteAnswers == IF app.recorded_frames_data = <<>> THEN {"ok"} ELSE {"ok", "open_fails"}

\* widgets == TRUE: a command runs only while its widget is enabled, as Tk
\* delivers it; widgets == FALSE: the method is called directly.
Enabled(widgets, w) == widgets => app[w] = "normal"

TimerFires ==
    /\ Running
    /\ app.after_callbacks > 0
    /\ \E cam_ok \in CamAnswers, ret \in (IF app.is_recording THEN BOOLEAN ELSE {TRUE}),
          frame \in (IF app.is_recording
                     THEN TrackerOutputs(Len(app.recorded_frames_data) + 1)
                     ELSE {<<>>}) :
          Handled("update_video_feed",
                  update_video_feed([Self EXCEPT !.after_callbacks = @ - 1],
                                    [Quiet EXCEPT !.cam_ok = cam_ok, !.ret = ret, !.frame = frame]))

\* The user edits the action name while the command that reads it, Start
\* Recording, is available.
TypeActionName(widgets) ==
    /\ Running
    /\ Enabled(widgets, "action_name_entry")
    /\ app.record_button = "normal"
    /\ \E name \in ActionNames :
          /\ name # app.current_action_name_var
          /\ Handled("type_action_name", [Self EXCEPT !.current_action_name_var = name])

\* The user picks a list entry while the command that reads the selection,
\* Play Selected, is available.
SelectRecording ==
    /\ Running
    /\ app.play_button = "normal"
    /\ \E i \in DOMAIN app.recordings_listbox :
          /\ app.curselection # Some(i)
          /\ Handled("select_recording", [Self EXCEPT !.curselection = Some(i)])

ToggleRecording(widgets) ==
    /\ Running
    /\ Enabled(widgets, "record_button")
    /\ \E cam_ok \in CamAnswers, ret \in ReadAnswers, write \in WriteAnswers, k \in DumpCuts :
          Handled("toggle_recording",
                  toggle_recording(Self, [Quiet EXCEPT !.cam_ok = cam_ok, !.ret = ret,
                                                       !.write = write, !.k = k]))

PlaySelectedRecording(widgets) ==
    /\ Running
    /\ Enabled(widgets, "play_button")
    /\ \E read_ok \in BOOLEAN :
          Handled("play_selected_recording",
                  play_selected_recording(Self, [Quiet EXCEPT !.read_ok = read_ok]))

TogglePauseReplay(widgets) ==
    /\ Running
    /\ Enabled(widgets, "pause_resume_button")
    /\ Handled("toggle_pause_replay", toggle_pause_replay(Self))

StopReplay(widgets) ==
    /\ Running
    /\ Enabled(widgets, "stop_replay_button")
    /\ \E cam_ok \in CamAnswers, ret \in ReadAnswers :
          Handled("stop_replay",
                  stop_replay(Self, [Quiet EXCEPT !.cam_ok = cam_ok, !.ret = ret]))

DeleteSelectedRecording(widgets) ==
    /\ Running
    /\ Enabled(widgets, "delete_button")
    /\ \E yes, remove_ok \in BOOLEAN :
          Handled("delete_selected_recording",
                  delete_selected_recording(Self, [Quiet EXCEPT !.yes = yes,
                                                                !.remove_ok = remove_ok]))

OnClosing ==
    /\ Running
    /\ \E yes \in (IF app.is_recording THEN BOOLEAN ELSE {TRUE}),
          write \in WriteAnswers, k \in DumpCuts :
          Handled("on_closing",
                  on_closing(Self, [Quiet EXCEPT !.yes = yes, !.write = write, !.k = k]))

TrackerPass ==
    /\ program = "tracker"
    /\ tracker.pc = "loop"
    /\ \E ret \in BOOLEAN,
          frame \in (IF tracker.is_recording
                     THEN TrackerOutputs(Len(tracker.recorded_frames) + 1)
                     ELSE {<<>>}),
          key \in Keys,
          action_input \in (IF tracker.is_recording THEN {<<" ">>} ELSE ActionInputs),
          write \in (IF tracker.is_recording THEN WriteOutcomes ELSE {"ok"}), k \in DumpCuts :
          LET g == [tracker EXCEPT !.current_frame_landmarks_normalized = None]
                       @@ [files |-> files]
              r == main_tracker(g, [Quiet EXCEPT !.ret = ret, !.frame = frame,
                                                 !.write = write, !.k = k],
                                key, action_input)
          IN /\ Len(r.recorded_frames) <= MaxFrames
             /\ r.started <= MaxRecordings
             /\ tracker' = Project(r, TrackerFields)
             /\ files' = r.files
             /\ op' = "main_tracker"
             /\ Remember(tracker.is_recording, r.is_recording,
                         r.current_frame_landmarks_normalized, r.files)
             /\ UNCHANGED <<program, now, app, player, sphere, result, robot>>

PlayerLoads ==
    /\ program = "player"
    /\ player.pc = "menu"
    /\ \E filepath \in DOMAIN files, read_ok \in BOOLEAN :
          /\ player' = replay_animation(player, files, filepath,
                                        [Quiet EXCEPT !.read_ok = read_ok])
          /\ op' = "replay_animation"
          /\ UNCHANGED <<program, files, now, app, tracker, history, sphere, result, robot>>

PlayerDraws ==
    /\ program = "player"
    /\ player.pc = "replaying"
    /\ \E key \in {"q", "none"} :
          /\ player' = replay_animation_frame(player, key)
          /\ op' = "replay_animation_frame"
          /\ UNCHANGED <<program, files, now, app, tracker, history, sphere, result, robot>>

\* Time passes.  Only a save and the tracker read the clock, so the time that
\* passes in the application is counted while a recording is in progress.
ClockTicks ==
    /\ now < MaxClock
    /\ IF program = "gui" THEN app.is_recording ELSE program = "tracker"
    /\ now' = now + 1
    /\ op' = "clock"
    /\ UNCHANGED <<program, files, app, tracker, player, history, sphere, result, robot>>

Commands(widgets) ==
    \/ TypeActionName(widgets)
    \/ ToggleRecording(widgets)
    \/ PlaySelectedRecording(widgets)
    \/ TogglePauseReplay(widgets)
    \/ StopReplay(widgets)
    \/ DeleteSelectedRecording(widgets)

Next ==
    \/ TimerFires
    \/ SelectRecording
    \/ OnClosing
    \/ Commands(TRUE)
    \/ TrackerPass
    \/ PlayerLoads
    \/ PlayerDraws
    \/ ClockTicks

\* In every state Tk can reach the record button is disabled while a replay
\* runs, so the guard at the top of toggle_recording is exercised only by a
\* direct call of the method.
NextCalled ==
    \/ Next
    \/ ToggleRecording(FALSE)

Spec == Init /\ [][Next]_vars

\* the same machine, where toggle_recording is also called as a method
SpecCalled == Init /\ [][NextCalled]_vars

---------------------------------------------------------------------------
\* InteractiveSphere.update_state called on its own, with frames of zero, one
\* and two landmarks whose last landmark lies on or around the image

Coordinates == -1..Grid + 1
Heights == {0, 1, Grid}
Radii == {2, 5}
ImageSizes == {<<6, 6>>, <<6, 4>>}      \* <<image_width, image_height>>

SpherePoint(x, y) == [x |-> x, y |-> y, z |-> 0, visibility |-> 0]

SphereFrames ==
    {<<>>}
    \cup {<<SpherePoint(x, y)>> : x \in Coordinates, y \in Heights}
    \cup {<<SpherePoint(0, 0), SpherePoint(x, y)>> : x \in Coordinates, y \in Heights}

InitSphere ==
    /\ program = "sphere"
    /\ files = <<>>
    /\ now = 0
    /\ app = NewApp
    /\ tracker = NewTracker
    /\ player = NewPlayer
    /\ op = "start"
    /\ history = [session |-> <<>>, saved |-> None]
    /\ result = NoCall
    /\ robot = NotLaunched
    /\ \E radius_pixels \in Radii, interaction_landmark_idx \in {0, 1} :
          sphere = InteractiveSphere(<<0, 0>>, radius_pixels, color_default,
                                     color_collided, interaction_landmark_idx)

UpdateState ==
    /\ program = "sphere"
    /\ \E hand_landmarks_normalized \in SphereFrames, size \in ImageSizes :
          LET r == update_state(sphere, hand_landmarks_normalized, size[1], size[2]) IN
          /\ sphere' = r.self
          /\ result' = [function |-> "update_state",
                        hand_landmarks_normalized |-> hand_landmarks_normalized,
                        image_width |-> size[1],
                        image_height |-> size[2],
                        returned |-> r.interaction_occurred]
          /\ op' = "update_state"
          /\ UNCHANGED <<program, files, now, app, tracker, player, history, robot>>

SpecSphere == InitSphere /\ [][UpdateState]_vars

---------------------------------------------------------------------------
\* The renderer on its own: a run is one call, on a frame of any length up to
\* the 21 landmarks of a hand, with depths that repeat with a period.

Lengths == 0..PINKY_TIP_IDX + 1
DepthPeriods == {1, 2, 3, 5, 8}
DepthSteps == {1, 3}
Renderers == {"draw_enhanced_landmarks_gui", "draw_enhanced_landmarks_replay",
              "draw_enhanced_landmarks"}

\* landmark i of n: depths run over 0 .. period - 1, shifted so that the
\* nearest is in front of the wrist plane (z < 0)
RenderFrame(n, step, period) ==
    [i \in 1..n |-> [x |-> i % (Grid + 1),
                     y |-> (2 * i) % (Grid + 1),
                     z |-> ((i * step) % period) - 1,
                     visibility |-> 0]]

RenderFrames ==
    {RenderFrame(n, step, period) : n \in Lengths, step \in DepthSteps, period \in DepthPeriods}

InitRender ==
    /\ program = "renderer"
    /\ files = <<>>
    /\ now = 0
    /\ app = NewApp
    /\ tracker = NewTracker
    /\ player = NewPlayer
    /\ op = "start"
    /\ history = [session |-> <<>>, saved |-> None]
    /\ sphere = Parked
    /\ robot = NotLaunched
    /\ \E function \in Renderers, normalized_landmarks_frame \in RenderFrames,
          size \in ImageSizes :
          result = [function |-> "none",
                    renderer |-> function,
                    normalized_landmarks_frame |-> normalized_landmarks_frame,
                    size |-> size]

Rendered(function, normalized_landmarks_frame, size) ==
    LET r == IF function = "draw_enhanced_landmarks_gui"
             THEN draw_enhanced_landmarks_gui(Canvas, normalized_landmarks_frame,
                                              size[1], size[2])
             ELSE IF function = "draw_enhanced_landmarks_replay"
             THEN draw_enhanced_landmarks_replay(Canvas, normalized_landmarks_frame,
                                                 size[1], size[2])
             ELSE draw_enhanced_landmarks(Canvas, normalized_landmarks_frame,
                                          size[1], size[2])
    IN [function |-> function,
        normalized_landmarks_frame |-> normalized_landmarks_frame,
        image_width |-> size[1],
        image_height |-> size[2],
        image |-> r.image,
        pixel_landmarks |-> r.pixel_landmarks,
        subscripts |-> r.subscripts,
        raised |-> r.raised]

Draw ==
    /\ program = "renderer"
    /\ result.function = "none"
    /\ result' = Rendered(result.renderer, result.normalized_landmarks_frame, result.size)
    /\ op' = result.renderer
    /\ UNCHANGED <<program, files, now, app, tracker, player, history, sphere, robot>>

SpecRender == InitRender /\ [][Draw]_vars

---------------------------------------------------------------------------
\* The serial bridge: main.py starts hand_tracker.py and arduino_sender.py as
\* subprocesses and watches them; arduino_sender.py copies hand_data.txt to
\* the serial port.  A subprocess is "absent" before Popen, then "running",
\* "exited" when it ended by itself, "terminated" after terminate().

\* contents of hand_data.txt that its writer may leave
HandData == {<<>>, <<" ">>, <<"d", " ">>}

\* Popen.terminate() followed by wait()
terminate(child) == IF child = "running" THEN "terminated" ELSE child

\* Popen.poll() is not None
polled(child) == child # "running"

\* one evaluation of the if statement of the monitoring loop
poll(m) ==
    IF polled(m.hand_tracker) \/ polled(m.arduino_sender)
    THEN [m EXCEPT !.stdout = "One of the subprocesses has exited.",
                   !.pc = "end",
                   !.left = "break"]
    ELSE [m EXCEPT !.pc = "sleep_half"]

\* KeyboardInterrupt raised in main.py
KeyboardInterrupt(m) ==
    IF m.pc \in {"poll", "sleep_half"}
    THEN [m EXCEPT !.stdout = "All processes stopped.",
                   !.hand_tracker = terminate(@),
                   !.arduino_sender = terminate(@),
                   !.pc = "end",
                   !.left = "interrupt"]
    ELSE [m EXCEPT !.pc = "end", !.left = "uncaught"]

\* the with statement of the sender: open, read, strip
read_hand_data(a, hand_data) ==
    IF hand_data = None
    THEN [a EXCEPT !.pc = "except", !.tried = TRUE, !.slept = FALSE]
    ELSE [a EXCEPT !.data = strip(Val(hand_data)),
                   !.pc = IF strip(Val(hand_data)) # <<>> THEN "write" ELSE "sleep",
                   !.tried = TRUE,
                   !.slept = FALSE]

\* arduino.write((data + "\n").encode()); print("Sent:", data)
write_serial(a, ok) ==
    IF ok THEN [a EXCEPT !.written = a.data \o <<"\n">>, !.stdout = "Sent:", !.pc = "sleep"]
    ELSE [a EXCEPT !.pc = "except"]

\* except Exception as e: print("Error:", e)
report_error(a) == [a EXCEPT !.stdout = "Error:", !.pc = "try"]

InitRobot ==
    /\ program = "robot"
    /\ files = <<>>
    /\ now = 0
    /\ app = NewApp
    /\ tracker = NewTracker
    /\ player = NewPlayer
    /\ op = "start"
    /\ history = [session |-> <<>>, saved |-> None]
    /\ sphere = Parked
    /\ result = NoCall
    /\ \E hand_data \in {None} \cup {Some(c) : c \in HandData} :
          robot = [NotLaunched EXCEPT !.hand_data = hand_data]

Robot(name, r) ==
    /\ program = "robot"
    /\ robot' = r
    /\ op' = name
    /\ UNCHANGED <<program, files, now, app, tracker, player, history, sphere, result>>

StartTracker ==
    /\ robot.pc = "popen_tracker"
    /\ Robot("Popen", [robot EXCEPT !.hand_tracker = "running", !.pc = "sleep1"])

MainWaits ==
    /\ robot.pc = "sleep1"
    /\ Robot("sleep", [robot EXCEPT !.pc = "popen_sender"])

StartSender ==
    /\ robot.pc = "popen_sender"
    /\ Robot("Popen", [robot EXCEPT !.arduino_sender = "running", !.pc = "poll"])

MainPolls ==
    /\ robot.pc = "poll"
    /\ Robot("poll", poll(robot))

MainSleeps ==
    /\ robot.pc = "sleep_half"
    /\ Robot("sleep", [robot EXCEPT !.pc = "poll"])

Interrupted ==
    /\ robot.pc \notin {"popen_tracker", "end"}
    /\ Robot("KeyboardInterrupt", KeyboardInterrupt(robot))

\* hand_tracker.py returns from main_tracker ('q', or no camera)
TrackerExits ==
    /\ robot.hand_tracker = "running"
    /\ Robot("tracker_exits", [robot EXCEPT !.hand_tracker = "exited"])

\* serial.Serial(...): the port opens, or the exception ends arduino_sender.py
SenderOpensPort ==
    /\ robot.arduino_sender = "running"
    /\ robot.sender.pc = "serial"
    /\ \E ok \in BOOLEAN :
          Robot("serial.Serial",
                IF ok THEN [robot EXCEPT !.sender.pc = "sleep2"]
                ELSE [robot EXCEPT !.arduino_sender = "exited"])

SenderSettles ==
    /\ robot.arduino_sender = "running"
    /\ robot.sender.pc = "sleep2"
    /\ Robot("sender_sleeps", [robot EXCEPT !.sender.pc = "try"])

SenderReads ==
    /\ robot.arduino_sender = "running"
    /\ robot.sender.pc = "try"
    /\ Robot("sender_reads",
             [robot EXCEPT !.sender = read_hand_data(@, robot.hand_data)])

SenderWrites ==
    /\ robot.arduino_sender = "running"
    /\ robot.sender.pc = "write"
    /\ \E ok \in BOOLEAN :
          Robot("sender_writes", [robot EXCEPT !.sender = write_serial(@, ok)])

SenderSleeps ==
    /\ robot.arduino_sender = "running"
    /\ robot.sender.pc = "sleep"
    /\ Robot("sender_sleeps", [robot EXCEPT !.sender.pc = "try", !.sender.slept = TRUE])

SenderReports ==
    /\ robot.arduino_sender = "running"
    /\ robot.sender.pc = "except"
    /\ Robot("sender_reports", [robot EXCEPT !.sender = report_error(@)])

\* the writer of hand_data.txt replaces the file, or the file is removed
HandDataChanges ==
    /\ robot.hand_tracker = "running"
    /\ \E hand_data \in {None} \cup {Some(c) : c \in HandData} :
          /\ hand_data # robot.hand_data
          /\ Robot("hand_data", [robot EXCEPT !.hand_data = hand_data])

NextRobot ==
    \/ StartTracker
    \/ MainWaits
    \/ StartSender
    \/ MainPolls
    \/ MainSleeps
    \/ Interrupted
    \/ TrackerExits
    \/ SenderOpensPort
    \/ SenderSettles
    \/ SenderReads
    \/ SenderWrites
    \/ SenderSleeps
    \/ SenderReports
    \/ HandDataChanges

SpecRobot == InitRobot /\ [][NextRobot]_vars

TypeOK ==
    /\ program \in {"gui", "tracker", "player"}
    /\ now \in 0..MaxClock
    /\ app.after_callbacks \in 0..MaxPending
    /\ Len(app.recorded_frames_data) <= MaxFrames

---------------------------------------------------------------------------
\* Properties

\* fields of the instance that only report on the handler that ran last
Reports == {"messagebox", "raised", "status_var", "video_panel",
            "current_frame_landmarks_normalized"}
SessionFields == AppFields \ Reports

SameOn(a, b, fields) == \A f \in fields : a[f] = b[f]

\* C1: recording and replaying are never active together.
MutualExclusion == ~(app.is_recording /\ app.replay_active)

PlayRefusedWhileRecording ==
    /\ op = "play_selected_recording"
    /\ app.is_recording
    /\ app.curselection # None
    /\ app.messagebox = "Playback Blocked"

\* C2: toggle_recording during a replay changes nothing of the replay or of
\* the recorder, and play_selected_recording during a recording changes
\* nothing of the recorder, of the replay or of the camera.
ModeConflictRejected ==
    [][ /\ (op' = "toggle_recording" /\ app.replay_active)
            => SameOn(app', app, {"replay_active", "replay_paused",
                                  "current_replay_frame_idx", "loaded_replay_data",
                                  "is_recording", "recorded_frames_data"})
        /\ (op' = "play_selected_recording" /\ app.is_recording)
            => SameOn(app', app, {"is_recording", "recorded_frames_data",
                                  "replay_active", "loaded_replay_data",
                                  "camera_active", "video_capture"}) ]_vars

RecordRefusedWhileReplaying ==
    /\ op = "toggle_recording"
    /\ app.replay_active
    /\ app.current_replay_frame_idx > 0
    /\ app.messagebox = "Recording Blocked"

\* C3: a start of recording with an action name that is empty after strip()
\* leaves is_recording false and changes no session variable, the camera and
\* the pending callbacks included.
EmptyNameRejectedWithoutChange ==
    [][ (/\ op' = "toggle_recording"
         /\ ~app.replay_active
         /\ ~app.is_recording
         /\ strip(app.current_action_name_var) = <<>>)
        => (~app'.is_recording /\ SameOn(app', app, SessionFields) /\ files' = files) ]_vars

\* the file named by the list entry that is selected
Selected(a) == a.recordings_listbox[Val(a.curselection)]

\* the frame read by the handler that ran last, <<>> when it read none
Read(r) == IF r.current_frame_landmarks_normalized = None THEN <<>>
           ELSE Val(r.current_frame_landmarks_normalized)

NonEmptyFrames(frames) == \A i \in 1..Len(frames) : frames[i] # <<>>

AllBufferedAndPersistedNonEmpty ==
    /\ NonEmptyFrames(app.recorded_frames_data)
    /\ NonEmptyFrames(tracker.recorded_frames)
    /\ \A n \in DOMAIN files :
          Has(files[n].doc.members, "frames")
              => NonEmptyFrames(Lookup(files[n].doc.members, "frames"))

\* C4: while recording, a tick that reads an empty frame leaves the buffer as
\* it was and a tick that reads a non-empty frame appends that frame at the
\* end, in the application and in the tracker; every frame in a buffer and in
\* a recording file is non-empty.
EmptyFramesDropped ==
    /\ []AllBufferedAndPersistedNonEmpty
    /\ [][ /\ (op' = "update_video_feed" /\ app.is_recording)
               => app'.recorded_frames_data =
                      IF Read(app') = <<>> THEN app.recorded_frames_data
                      ELSE Append(app.recorded_frames_data, Read(app'))
           /\ (op' = "main_tracker" /\ tracker.is_recording
                  /\ tracker'.is_recording /\ tracker'.pc = "loop")
               => tracker'.recorded_frames =
                      IF Read(tracker') = <<>> THEN tracker.recorded_frames
                      ELSE Append(tracker.recorded_frames, Read(tracker')) ]_vars

EmptyFrameSeenWhileRecording ==
    /\ op = "update_video_feed"
    /\ app.is_recording
    /\ app.current_frame_landmarks_normalized = Some(<<>>)
    /\ Len(app.recorded_frames_data) = 1

\* C5: ending a recording whose buffer holds no frame writes no file and
\* leaves the recordings directory and the list as they were, in the
\* application (stop button, window close) and in the tracker ('r', 'q').
EmptyRecordingWritesNothing ==
    [][ /\ (op' \in {"toggle_recording", "on_closing"}
               /\ app.is_recording /\ app.recorded_frames_data = <<>>)
            => (files' = files /\ app'.recordings_listbox = app.recordings_listbox)
        /\ (op' = "main_tracker" /\ tracker.is_recording
               /\ tracker.recorded_frames = <<>> /\ Read(tracker') = <<>>)
            => files' = files ]_vars

StoppedWithoutFrames ==
    /\ op = "toggle_recording"
    /\ ~app.is_recording
    /\ app.started = 1
    /\ app.status_var = "No frames recorded to save."

\* the recording saved last holds the frames its session was given, all of
\* them, in order, and counts them
SavedFileHoldsSession ==
    history.saved # None =>
        LET sv == Val(history.saved) IN
        ~LoadRaises(files[sv.name].doc) =>
            LET data == json_load(files[sv.name].doc) IN
            /\ sv.frames # <<>>
            /\ Has(data, "frameCount") /\ Has(data, "frames")
            /\ Lookup(data, "frameCount") = Len(sv.frames)
            /\ Lookup(data, "frames") = sv.frames

\* C6: the file of a recording stopped after N non-empty frames has
\* frameCount = N = len(frames), and playing it loads exactly the frames its
\* session was given, in order, none of an earlier session among them.
RoundTrip ==
    /\ []SavedFileHoldsSession
    /\ [][ (/\ op' = "play_selected_recording"
            /\ ~app.replay_active /\ app'.replay_active
            /\ history.saved # None
            /\ Selected(app) = Val(history.saved).name)
           => Lookup(Val(app'.loaded_replay_data), "frames")
                  = Val(history.saved).frames ]_vars

SecondRecordingPlayed ==
    /\ op = "play_selected_recording"
    /\ app.replay_active
    /\ app.started = 2
    /\ history.saved # None
    /\ Selected(app) = Val(history.saved).name
    /\ Len(Val(history.saved).frames) = 2
    /\ Lookup(Val(app.loaded_replay_data), "frameCount") = 2

\* C7: a save that fails with IOError leaves the recording buffer as it was
\* before the save, in the application and in the tracker.
FailedSaveKeepsBuffer ==
    [][ /\ (op' \in {"toggle_recording", "on_closing"} /\ app'.messagebox = "Save Error")
            => app'.recorded_frames_data = app.recorded_frames_data
        /\ (op' = "main_tracker" /\ tracker'.stdout = "Error saving recording")
            => tracker'.recorded_frames =
                   IF Read(tracker') = <<>> THEN tracker.recorded_frames
                   ELSE Append(tracker.recorded_frames, Read(tracker')) ]_vars

RequiredMembers(data) ==
    /\ Has(data, "frames") /\ Has(data, "fps") /\ Has(data, "actionName")
    /\ Lookup(data, "frames") # <<>>

\* C8: a replay runs only on a recording that holds frames, fps and
\* actionName and at least one frame, in the application and in the player.
LoadRequiresAllMembers ==
    /\ (app.replay_active /\ app.loaded_replay_data # None)
           => RequiredMembers(Val(app.loaded_replay_data))
    /\ player.pc = "replaying" => RequiredMembers(Val(player.recording_data))

\* C9: when play_selected_recording cannot read or parse the selected file,
\* no replay is active, the cursor is 0, no recording is loaded and the camera
\* is as it was.
FailedLoadLeavesIdle ==
    [][ (/\ op' = "play_selected_recording"
         /\ \/ app'.messagebox = "Load Error"
            \/ /\ app.curselection # None
               /\ ~app.is_recording
               /\ Selected(app) \in DOMAIN files
               /\ LoadRaises(files[Selected(app)].doc))
        => /\ app'.messagebox = "Load Error"
           /\ ~app'.replay_active
           /\ app'.current_replay_frame_idx = 0
           /\ app'.loaded_replay_data = None
           /\ SameOn(app', app, {"camera_active", "video_capture", "after_callbacks"}) ]_vars

UnparsableFileRefused ==
    /\ op = "play_selected_recording"
    /\ app.messagebox = "Load Error"
    /\ LoadRaises(files[Selected(app)].doc)
    /\ app.camera_active
    /\ ~app.replay_active

ReplayedSoFar ==
    /\ (app.replay_active /\ app.loaded_replay_data # None)
           => LET frames == Lookup(Val(app.loaded_replay_data), "frames") IN
              /\ app.current_replay_frame_idx <= Len(frames)
              /\ app.replayed = SubSeq(frames, 1, app.current_replay_frame_idx)
    /\ (~app.replay_active /\ ~app.destroyed) => app.replayed = <<>>
    /\ player.pc = "replaying"
           => /\ player.frame_idx < Len(player.frames_data)
              /\ player.replayed = SubSeq(player.frames_data, 1, player.frame_idx)

\* C10: the advances of a running replay draw frames 0, 1, ..., frameCount-1,
\* one each and in that order; the advance after the last frame ends the
\* replay, and a tick after the end draws nothing.
ReplayInOrder ==
    /\ []ReplayedSoFar
    /\ [][ /\ (op' = "update_video_feed" /\ app.replay_active /\ ~app.replay_paused)
               => LET frames == Lookup(Val(app.loaded_replay_data), "frames")
                      idx == app.current_replay_frame_idx
                  IN IF idx < Len(frames)
                     THEN /\ app'.replay_active
                          /\ app'.current_replay_frame_idx = idx + 1
                          /\ app'.replayed = Append(app.replayed, frames[idx + 1])
                          /\ app'.loaded_replay_data = app.loaded_replay_data
                     ELSE /\ ~app'.replay_active
                          /\ app'.current_replay_frame_idx = 0
                          /\ app'.replayed = <<>>
           /\ (op' = "update_video_feed" /\ ~app.replay_active)
               => /\ ~app'.replay_active
                  /\ app'.replayed = <<>>
                  /\ app'.current_replay_frame_idx = app.current_replay_frame_idx
           /\ op' = "replay_animation_frame"
               => /\ player'.replayed
                      = Append(player.replayed, player.frames_data[player.frame_idx + 1])
                  /\ player'.pc = "exit"
                         => \/ player'.frame_idx = Len(player.frames_data)
                            \/ player'.frame_idx = player.frame_idx ]_vars

LastFrameReplayed ==
    /\ op = "update_video_feed"
    /\ app.replay_active
    /\ app.current_replay_frame_idx = 2
    /\ Len(Lookup(Val(app.loaded_replay_data), "frames")) = 2
    /\ Len(app.replayed) = 2

\* no replay: the flags are down, the cursor is 0 and nothing is loaded
NoReplay(a) ==
    /\ ~a.replay_active
    /\ ~a.replay_paused
    /\ a.current_replay_frame_idx = 0
    /\ a.loaded_replay_data = None

\* C11: the tick that finds the cursor at the end of the sequence, and
\* stop_replay at any point of a replay, running or paused, leave
\* replay_active and replay_paused false, the cursor 0 and nothing loaded.
ReplayReturnsToIdle ==
    [][ (\/ op' = "stop_replay" /\ app.replay_active
         \/ /\ op' = "update_video_feed"
            /\ app.replay_active /\ ~app.replay_paused
            /\ app.current_replay_frame_idx
                   = Len(Lookup(Val(app.loaded_replay_data), "frames")))
        => NoReplay(app') ]_vars

ReplayRanToItsEnd ==
    /\ op = "update_video_feed"
    /\ app.raised = "AttributeError"
    /\ NoReplay(app)
    /\ app.play_button = "normal"

\* some recording file in fs holds exactly these frames
PersistedIn(fs, frames) ==
    \E n \in DOMAIN fs :
        /\ ~LoadRaises(fs[n].doc)
        /\ Get(json_load(fs[n].doc), "frames", <<>>) = frames

\* the tracker's buffer once the pass has appended the frame it read
Retained(g, g2) ==
    IF Read(g2) = <<>> THEN g.recorded_frames ELSE Append(g.recorded_frames, Read(g2))

\* C12: when a recording that holds frames is ended (stop button, window
\* close, 'r' or 'q' in the tracker) and the write does not fail, the frames
\* are in a recording file afterwards and is_recording is false.
EndedRecordingPersisted ==
    [][ /\ (/\ op' \in {"toggle_recording", "on_closing"}
            /\ app.is_recording
            /\ app.recorded_frames_data # <<>>
            /\ app'.messagebox # "Save Error")
           => (PersistedIn(files', app.recorded_frames_data) /\ ~app'.is_recording)
        /\ (/\ op' = "main_tracker"
            /\ tracker.is_recording
            /\ Retained(tracker, tracker') # <<>>
            /\ tracker'.stdout \in {"Recording saved", "No frames recorded to save."})
           => (PersistedIn(files', Retained(tracker, tracker')) /\ ~tracker'.is_recording) ]_vars

\* C13: play_selected_recording, toggle_pause_replay, stop_replay, the ticks of
\* a replay, its end included, and closing the window during a replay leave
\* the recordings directory and recorded_frames_data as they were.
ReplayWritesNothing ==
    [][ (\/ op' \in {"play_selected_recording", "toggle_pause_replay", "stop_replay"}
         \/ op' \in {"update_video_feed", "on_closing"} /\ app.replay_active)
        => /\ files' = files
           /\ app'.recorded_frames_data = app.recorded_frames_data ]_vars

ReplayAbandoned ==
    /\ op = "stop_replay"
    /\ NoReplay(app)
    /\ history.saved # None
    /\ app.status_var # ""

\* C14: a save leaves every recording file that exists as it is: the file it
\* writes has a name that no earlier save used.
SaveNeverOverwrites ==
    [][ op' \in {"toggle_recording", "on_closing", "main_tracker"}
        => \A n \in DOMAIN files : n \in DOMAIN files' /\ files'[n] = files[n] ]_vars

\* C15: at most one update_video_feed callback is pending in root.after.
AtMostOneDriverLoop == app.after_callbacks <= 1

\* the landmark at interaction_landmark_idx of the frame of the last call
Tracked == result.hand_landmarks_normalized[sphere.interaction_landmark_idx + 1]

\* the frame of the last call has a landmark at interaction_landmark_idx
HasTracked == Len(result.hand_landmarks_normalized) > sphere.interaction_landmark_idx

\* squared pixel distance between the normalized positions p and q
PixelDistSq(p, q, image_width, image_height) ==
    LET dx == Pixel(p[1], image_width) - Pixel(q[1], image_width)
        dy == Pixel(p[2], image_height) - Pixel(q[2], image_height)
    IN dx * dx + dy * dy

\* C16: update_state returns True exactly when the frame has a landmark at
\* interaction_landmark_idx and the squared pixel distance between the sphere
\* and that landmark, both truncated to pixels, is below (1.2 * radius)^2,
\* that is 100 * distance^2 < 144 * radius^2; at the threshold it returns False.
CollisionBelowThreshold ==
    [][ op' = "update_state"
        => (result'.returned
              <=> /\ HasTracked'
                  /\ 100 * PixelDistSq(sphere.pos_normalized, <<Tracked'.x, Tracked'.y>>,
                                       result'.image_width, result'.image_height)
                        < 144 * sphere.radius_pixels * sphere.radius_pixels) ]_vars

OnTheThreshold ==
    /\ op = "update_state"
    /\ HasTracked
    /\ ~result.returned
    /\ 100 * PixelDistSq(sphere.pos_normalized, <<Tracked.x, Tracked.y>>,
                         result.image_width, result.image_height)
          = 144 * sphere.radius_pixels * sphere.radius_pixels

\* C17: after update_state the flag is_currently_collided equals the value
\* returned, whatever the flag was before; on a collision pos_normalized is
\* the (x, y) of the tracked landmark, otherwise (empty frame and frame too
\* short included) it is unchanged; radius, colours and index never change.
UpdateTouchesFlagAndPosition ==
    [][ op' = "update_state"
        => /\ sphere'.is_currently_collided = result'.returned
           /\ sphere'.pos_normalized =
                  IF result'.returned THEN <<Tracked'.x, Tracked'.y>>
                  ELSE sphere.pos_normalized
           /\ (~HasTracked' => ~result'.returned)
           /\ SameOn(sphere', sphere, {"radius_pixels", "color_default", "color_collided",
                                       "interaction_landmark_idx"}) ]_vars

ReleasedByShortFrame ==
    /\ op = "update_state"
    /\ result.hand_landmarks_normalized # <<>>
    /\ ~HasTracked
    /\ ~sphere.is_currently_collided
    /\ sphere.pos_normalized # <<0, 0>>

---------------------------------------------------------------------------
\* Renderer

Drawn == result.function \in Renderers

FrameLength == Len(result.normalized_landmarks_frame)

Resolved(indices) == {idx \in indices : idx < FrameLength}

PalmRing == {PALM_INDICES[k] : k \in DOMAIN PALM_INDICES}

\* C18: a call of the renderer on a frame of 0 to 21 landmarks raises no
\* IndexError and subscripts the landmarks only below the frame length; it
\* draws the palm polygon exactly when three or more palm indices are below the
\* length, through those; a line for exactly the connections with both ends
\* below the length; circles for exactly the joints of the frame; and nothing
\* at all on an empty frame.
RendererStaysInBounds ==
    Drawn =>
       /\ FrameLength \in Lengths
       /\ result.raised = ""
       /\ result.subscripts \subseteq 0..FrameLength - 1
       /\ Len(result.image.drawContours)
             = (IF Cardinality(Resolved(PalmRing)) >= 3 THEN 1 ELSE 0)
       /\ \A k \in DOMAIN result.image.drawContours :
             Len(result.image.drawContours[k].points) = Cardinality(Resolved(PalmRing))
       /\ {<<l.start_idx, l.end_idx>> : l \in result.image.line}
             = {c \in HAND_CONNECTIONS : c[1] < FrameLength /\ c[2] < FrameLength}
       /\ {result.image.circle[k].idx : k \in DOMAIN result.image.circle}
             = 0..FrameLength - 1
       /\ (FrameLength = 0 => result.image = Canvas)

\* a frame that ends inside the palm ring and inside the skeleton: two palm
\* indices resolve, one connection is drawn
ShortFrameDrawn ==
    /\ Drawn
    /\ FrameLength = 2
    /\ result.raised = ""
    /\ result.image.drawContours = <<>>
    /\ Cardinality(result.image.line) = 1
    /\ Len(result.image.circle) = 4

---------------------------------------------------------------------------
\* Frame rate of a recording

Fps(file) == Get(json_load(file.doc), "fps", <<0, 1>>)

WrittenBy(fs, fs2) ==
    {n \in DOMAIN fs2 : (n \notin DOMAIN fs \/ fs2[n] # fs[n]) /\ ~LoadRaises(fs2[n].doc)}

\* C19: every recording file that a step of the GUI or of the tracker writes
\* in full holds a member fps whose value is greater than 0 (a fraction with
\* positive numerator and denominator), whichever handler ended the recording
\* and whatever the elapsed time and the number of frames.
PersistedFpsPositive ==
    [][ \A n \in WrittenBy(files, files') :
           /\ Has(json_load(files'[n].doc), "fps")
           /\ Fps(files'[n])[1] > 0
           /\ Fps(files'[n])[2] > 0 ]_vars

\* the tracker has stopped a recording with 'r' after a measurable time and
\* saved it with the rate it estimated
EstimatedFpsPersisted ==
    /\ op = "main_tracker"
    /\ tracker.stdout = "Recording saved"
    /\ ~tracker.is_recording
    /\ \E n \in DOMAIN files :
          /\ ~LoadRaises(files[n].doc)
          /\ files[n].mtime = now
          /\ Fps(files[n]) = <<tracker.frame_count_recording, now - Val(tracker.start_time_recording)>>
          /\ Fps(files[n]) # DefaultSaveFps

---------------------------------------------------------------------------
\* Depth styling

DepthScales ==
    {result.pixel_landmarks[i].depth_scale : i \in DOMAIN result.pixel_landmarks}

\* the depth scale of the landmark with index idx (from 0)
ScaleAt(idx) == result.pixel_landmarks[idx + 1].depth_scale

\* 5 * the mean of two fractions, as a fraction
FiveTimesMean(q1, q2) == <<5 * (q1[1] * q2[2] + q2[1] * q1[2]), 2 * q1[2] * q2[2]>>

InUnitInterval(q) == q[2] > 0 /\ 0 <= q[1] /\ q[1] <= q[2]

Joints == {result.image.circle[k] : k \in DOMAIN result.image.circle}

\* C20 as stated: every depth scale of a drawn frame is in [0, 1], every bone
\* has thickness 1 + round(5 * mean depth scale of its ends), within 1..6, and
\* every joint circle has radius 3 + round(7 * depth scale), within 3..10.
DepthStylingRounded ==
    Drawn =>
       /\ \A q \in DepthScales : InUnitInterval(q)
       /\ \A l \in result.image.line :
             LET m == FiveTimesMean(ScaleAt(l.start_idx), ScaleAt(l.end_idx))
             IN l.thickness = 1 + round(m[1], m[2]) /\ l.thickness \in 1..6
       /\ \A c \in Joints :
             /\ c.radius = 3 + round(7 * ScaleAt(c.idx)[1], ScaleAt(c.idx)[2])
             /\ c.radius \in 3..10

\* C20, amended: every depth scale of a drawn frame is in [0, 1], every bone
\* has thickness 1 + (5 * mean depth scale of its ends, truncated to an
\* integer), within 1..6, and every joint circle has radius 3 + (7 * depth
\* scale, truncated to an integer), within 3..10.
DepthStylingTruncated ==
    Drawn =>
       /\ \A q \in DepthScales : InUnitInterval(q)
       /\ \A l \in result.image.line :
             LET m == FiveTimesMean(ScaleAt(l.start_idx), ScaleAt(l.end_idx))
             IN l.thickness = 1 + m[1] \div m[2] /\ l.thickness \in 1..6
       /\ \A c \in Joints :
             /\ c.radius = 3 + (7 * ScaleAt(c.idx)[1]) \div ScaleAt(c.idx)[2]
             /\ c.radius \in 3..10

\* a full hand drawn with the nearest and the farthest landmark joined by a
\* bone: the mean depth scale is 1/2, 5 * 1/2 is cut to 2 and the bone is
\* 3 wide; the widest bone is 6 wide, the circles run from radius 3 to
\* radius 10
HalfwayBoneDrawn ==
    /\ Drawn
    /\ FrameLength = PINKY_TIP_IDX + 1
    /\ \E l \in result.image.line :
          /\ ScaleAt(l.start_idx)[1] = 0
          /\ ScaleAt(l.end_idx)[1] = ScaleAt(l.end_idx)[2]
          /\ l.thickness = 3
    /\ \E l \in result.image.line : l.thickness = 6
    /\ \E c \in Joints : c.radius = 3
    /\ \E c \in Joints : c.radius = 10

Depths ==
    {result.normalized_landmarks_frame[i].z : i \in DOMAIN result.normalized_landmarks_frame}

\* C21: in a drawn frame whose landmarks are all at one depth every depth
\* scale is 1/2; in any other drawn frame the landmarks at the least depth
\* have depth scale 1 and the landmarks at the greatest depth have depth
\* scale 0.
SameDepthDefaultsToHalf ==
    Drawn /\ FrameLength > 0 =>
       IF Cardinality(Depths) = 1
       THEN \A q \in DepthScales : 2 * q[1] = q[2]
       ELSE \A i \in DOMAIN result.pixel_landmarks :
               LET p == result.pixel_landmarks[i] IN
               /\ (\A z \in Depths : p.z <= z) => p.depth_scale[1] = p.depth_scale[2]
               /\ (\A z \in Depths : p.z >= z) => p.depth_scale[1] = 0

---------------------------------------------------------------------------
\* Replay and the driver loop

Tick(a) == op' = "update_video_feed" /\ a.replay_active

Paused(a) == a.replay_active /\ a.replay_paused

LoadedFrames(a) == Lookup(Val(a.loaded_replay_data), "frames")

PausedReplayHolds ==
    [][ Tick(app) /\ Paused(app) =>
           /\ app'.current_replay_frame_idx = app.current_replay_frame_idx
           /\ app'.loaded_replay_data = app.loaded_replay_data
           /\ Paused(app') ]_vars

\* a tick has found the replay paused after its first frame
TickedWhilePaused ==
    /\ op = "update_video_feed"
    /\ Paused(app)
    /\ app.current_replay_frame_idx > 0
    /\ app.video_panel = "Camera off or replay active"

\* C24: when toggle_pause_replay resumes a replay that was paused after it
\* had advanced, a timer tick is pending afterwards: with no further command
\* the driver loop advances the cursor again, up to the end of the sequence.
\* (Without a pending callback no tick ever runs again.)
ResumedReplayIsDriven ==
    [][ op' = "toggle_pause_replay" /\ Paused(app) /\ app.current_replay_frame_idx > 0
           => app'.after_callbacks > 0 ]_vars

\* C25: no call of update_video_feed ends with the AttributeError of a
\* dereference of loaded_replay_data while it is None.
TickNeverDereferencesNone ==
    ~(op = "update_video_feed" /\ app.raised = "AttributeError")

\* C26: while the window is open, loaded_replay_data is not None exactly
\* when replay_active is true.
LoadedOnlyWhileReplaying ==
    Running => (app.loaded_replay_data # None <=> app.replay_active)

CursorInRange(a) ==
    a.replay_active =>
       /\ a.loaded_replay_data # None
       /\ a.current_replay_frame_idx \in 0..Len(LoadedFrames(a))

\* a tick of a running replay whose cursor is before the end
Advance ==
    /\ Tick(app)
    /\ ~app.replay_paused
    /\ app.current_replay_frame_idx < Len(LoadedFrames(app))

AdvancesByOne ==
    /\ Advance => app'.current_replay_frame_idx = app.current_replay_frame_idx + 1
    /\ (app.replay_active /\ app'.replay_active
           /\ app'.current_replay_frame_idx # app.current_replay_frame_idx)
       => Advance

\* C27 as stated: in every state the cursor is 0 when replay_active is
\* false and within 0..len(frames) when it is true, and an advance adds
\* exactly 1 to it.
CursorWithinSequence ==
    /\ [](~app.replay_active => app.current_replay_frame_idx = 0)
    /\ []CursorInRange(app)
    /\ [][AdvancesByOne]_vars

\* C27, amended: in every state in which the window is open the cursor is 0
\* when replay_active is false; in every state it is within 0..len(frames)
\* when replay_active is true, and an advance adds exactly 1 to it.
CursorWithinSequenceWhileOpen ==
    /\ [](Running /\ ~app.replay_active => app.current_replay_frame_idx = 0)
    /\ []CursorInRange(app)
    /\ [][AdvancesByOne]_vars

\* the last frame of a recording of two frames has been drawn
CursorAtTheEnd ==
    /\ op = "update_video_feed"
    /\ app.replay_active
    /\ app.current_replay_frame_idx = 2
    /\ Len(LoadedFrames(app)) = 2

\* C28: while the window is open and is_recording is false,
\* recorded_frames_data is empty.
BufferEmptyOutsideRecording ==
    Running /\ ~app.is_recording => app.recorded_frames_data = <<>>

\* a recording with frames was stopped and the file could not be written
StoppedWithFailedSave ==
    /\ op = "toggle_recording"
    /\ app.messagebox = "Save Error"
    /\ ~app.is_recording
    /\ app.recorded_frames_data = <<>>

---------------------------------------------------------------------------
\* Serial bridge

\* C29: when main.py has ended after leaving its monitoring loop, by the
\* break or by the KeyboardInterrupt handler, neither hand_tracker.py nor
\* arduino_sender.py is running.
SupervisorStopsBothChildren ==
    robot.pc = "end" /\ robot.left \in {"break", "interrupt"} =>
       robot.hand_tracker # "running" /\ robot.arduino_sender # "running"

\* C30: every opening of hand_data.txt by the sender, except the first, comes
\* after a time.sleep(0.05) that ran since the previous opening.
SenderSleepsBetweenReads ==
    [][ op' = "sender_reads" /\ robot.sender.tried => robot.sender.slept ]_vars

====
